---- MODULE Spec2Model ----
(***************************************************************************)
(* Stock MCP server (mcp_server.py): the price-resolution fallback         *)
(* pipeline (Yahoo Finance, then the local CSV file) and the four tools    *)
(* built on it.                                                            *)
(*                                                                         *)
(* Conventions.                                                            *)
(*   - A Python str is a sequence of one-character strings.                *)
(*   - Optional[x] is a sequence of length <= 1: None is << >>, a present  *)
(*     value v is <<v>>.                                                   *)
(*   - Prices are integers counting cents, so that "${price:.2f}" renders  *)
(*     them exactly.  Market caps count billions.                          *)
(*   - The outcome of a Python call is a record with a field raised: an    *)
(*     exception leaving the call is raised = TRUE.                        *)
(***************************************************************************)
EXTENDS Integers, Sequences, FiniteSets, TLC

VARIABLES
    hist,   \* provider: symbol -> response of Ticker(symbol).history(period="1d")
    info,   \* provider: symbol -> response of Ticker(symbol).info
    file,   \* the backing CSV file at CSV_FILE_PATH
    out     \* the tool call just answered: its arguments, what it did, its result

vars == <<hist, info, file, out>>

(***************************************************************************)
(* Bounds of the model.                                                    *)
(***************************************************************************)
MaxPrice == 2       \* prices of the provider and of the file range over 0..MaxPrice
MaxRows == 2        \* the CSV file holds at most MaxRows data rows

None == << >>
Some(v) == <<v>>

Price == 0..MaxPrice
OptPrice == {None} \cup {Some(p) : p \in Price}

(***************************************************************************)
(* Strings.                                                                *)
(***************************************************************************)
UpperChar(c) ==
    CASE c = "a" -> "A"
      [] c = "b" -> "B"
      [] c = "c" -> "C"
      [] OTHER -> c

\* str.upper()
upper(s) == [k \in 1..Len(s) |-> UpperChar(s[k])]

RECURSIVE lstrip(_)
lstrip(s) == IF s # << >> /\ Head(s) = " " THEN lstrip(Tail(s)) ELSE s

RECURSIVE rstrip(_)
rstrip(s) ==
    IF s # << >> /\ s[Len(s)] = " " THEN rstrip(SubSeq(s, 1, Len(s) - 1)) ELSE s

\* str.strip()
strip(s) == rstrip(lstrip(s))

\* "${x:.2f}" of an amount counted in cents: dollars and cents
fmt2(x) == [dollars |-> x \div 100, cents |-> x % 100]

(***************************************************************************)
(* The market-data provider (yfinance), seen through the two queries the   *)
(* code makes.  It lists the tickers in DOMAIN hist; for any other string  *)
(* the history is empty and the info record has no fields.                 *)
(***************************************************************************)
A == <<"A">>
B == <<"B">>

HistThrow == [kind |-> "throw", close |-> 0]
HistEmpty == [kind |-> "empty", close |-> 0]
HistRows(p) == [kind |-> "rows", close |-> p]
HistResp == {HistThrow, HistEmpty} \cup {HistRows(p) : p \in Price}

\* ticker.history(period="1d")
History(symbol, h) == IF symbol \in DOMAIN h THEN h[symbol] ELSE HistEmpty

EmptyInfo ==
    [kind |-> "ok",
     regularMarketPrice |-> None, longName |-> None, marketCap |-> None,
     trailingPE |-> None, dividendYield |-> None, fiftyTwoWeekHigh |-> None,
     fiftyTwoWeekLow |-> None, regularMarketChange |-> None,
     regularMarketChangePercent |-> None]
InfoThrow == [EmptyInfo EXCEPT !.kind = "throw"]

\* ticker.info
Info(symbol, i) == IF symbol \in DOMAIN i THEN i[symbol] ELSE EmptyInfo

(***************************************************************************)
(* The backing file.                                                       *)
(***************************************************************************)
Unparsable == << >>     \* a price cell float() rejects
RowSymbols == {<<"a">>, B}
Row == [symbol : RowSymbols, price : {Unparsable, Some(0), Some(MaxPrice)}]

FileMissing == [kind |-> "missing", rows |-> << >>]
FileUnreadable == [kind |-> "unreadable", rows |-> << >>]
FileTable(rows) == [kind |-> "table", rows |-> rows]

Raised == [raised |-> TRUE, val |-> None]
Return(v) == [raised |-> FALSE, val |-> v]

\* pd.read_csv(CSV_FILE_PATH) followed by df['symbol'], df['price']
read_csv(f) == IF f.kind = "table" THEN Return(f.rows) ELSE Raised

\* float(stock_row['price'].iloc[0])
float_cell(cell) == IF cell = Unparsable THEN Raised ELSE Return(cell)

\* csv_try taking the last matching row, .iloc[-1], instead of the first
csv_try_last_match(symbol, f) ==
    IF f.kind = "missing" THEN Return(None)
    ELSE LET df == read_csv(f) IN
         IF df.raised THEN Raised
         ELSE LET rows == [k \in 1..Len(df.val) |->
                              [df.val[k] EXCEPT !.symbol = upper(@)]]
                  sym == upper(symbol)
                  matches(r) == r.symbol = sym
                  stock_row == SelectSeq(rows, matches)
              IN  IF stock_row # << >>
                  THEN float_cell(stock_row[Len(stock_row)].price)
                  ELSE Return(None)

\* the try block of get_price_from_csv
csv_try(symbol, f) ==
    IF f.kind = "missing" THEN Return(None)
    ELSE LET df == read_csv(f) IN
         IF df.raised THEN Raised
         ELSE LET rows == [k \in 1..Len(df.val) |->
                              [df.val[k] EXCEPT !.symbol = upper(@)]]
                  sym == upper(symbol)
                  matches(r) == r.symbol = sym
                  stock_row == SelectSeq(rows, matches)
              IN  IF stock_row # << >>
                  THEN float_cell(stock_row[1].price)
                  ELSE Return(None)

\* get_price_from_csv without its try/except
get_price_from_csv_uncaught(symbol, f) == csv_try(symbol, f)

\* get_price_from_csv: never raises
get_price_from_csv(symbol, f) ==
    LET r == csv_try(symbol, f) IN IF r.raised THEN Return(None) ELSE r

(***************************************************************************)
(* The price resolver.  trace lists the collaborators it called, in order. *)
(***************************************************************************)
Live(raised, price, trace) == [raised |-> raised, price |-> price, trace |-> trace]

\* the try block of get_stock_price_with_fallback
live_try(symbol, h, i) ==
    LET data == History(symbol, h) IN
    IF data.kind = "throw" THEN Live(TRUE, None, <<"history">>)
    ELSE IF data.kind = "rows" THEN Live(FALSE, Some(data.close), <<"history">>)
    ELSE LET rec == Info(symbol, i) IN
         IF rec.kind = "throw" THEN Live(TRUE, None, <<"history", "info">>)
         ELSE Live(FALSE, rec.regularMarketPrice, <<"history", "info">>)

Quote(raised, price, source, trace) ==
    [raised |-> raised, price |-> price, source |-> source, trace |-> trace]

\* get_stock_price_with_fallback asking the file first and the provider second
get_stock_price_with_fallback_csv_first(symbol, h, i, f) ==
    LET csv_price == get_price_from_csv(symbol, f) IN
    IF ~csv_price.raised /\ csv_price.val # None
    THEN Quote(FALSE, csv_price.val, "csv", <<"csv">>)
    ELSE LET l == live_try(symbol, h, i) IN
         IF ~l.raised /\ l.price # None
         THEN Quote(FALSE, l.price, "yfinance", <<"csv">> \o l.trace)
         ELSE Quote(FALSE, None, "none", <<"csv">> \o l.trace)

\* get_stock_price_with_fallback without the test "csv_price is not None"
get_stock_price_with_fallback_unchecked_csv(symbol, h, i, f) ==
    LET l == live_try(symbol, h, i) IN
    IF ~l.raised /\ l.price # None
    THEN Quote(FALSE, l.price, "yfinance", l.trace)
    ELSE LET csv_price == get_price_from_csv(symbol, f) IN
         Quote(csv_price.raised, csv_price.val, "csv", l.trace \o <<"csv">>)

get_stock_price_with_fallback(symbol, h, i, f) ==
    LET l == live_try(symbol, h, i) IN
    IF ~l.raised /\ l.price # None
    THEN Quote(FALSE, l.price, "yfinance", l.trace)
    ELSE LET csv_price == get_price_from_csv(symbol, f)
             trace == l.trace \o <<"csv">>
         IN  IF csv_price.raised THEN Quote(TRUE, None, "none", trace)
             ELSE IF csv_price.val # None
                  THEN Quote(FALSE, csv_price.val, "csv", trace)
                  ELSE Quote(FALSE, None, "none", trace)

(***************************************************************************)
(* Tools.  A returned string is a record: the template and what is         *)
(* interpolated into it.                                                   *)
(***************************************************************************)
ToolRaised == [raised |-> TRUE, text |-> [template |-> "exception"]]
Lookup(sym, q) == [symbol |-> sym] @@ q
Text(t) == [raised |-> FALSE, text |-> t]

\* get_stock_price without .upper() on its argument
get_stock_price_no_upper(symbol, h, i, f) ==
    LET sym == strip(symbol)
        q == get_stock_price_with_fallback(sym, h, i, f)
    IN  [lookups |-> <<Lookup(sym, q)>>,
         res |-> IF q.raised THEN ToolRaised
                 ELSE IF q.price # None
                 THEN Text([template |-> "Current price of",
                            symbol |-> sym,
                            price |-> fmt2(q.price[1]),
                            source_text |-> IF q.source = "yfinance"
                                            THEN "from Yahoo Finance"
                                            ELSE "from local data"])
                 ELSE Text([template |-> "ERROR: Could not retrieve price for, data sources",
                            symbol |-> sym])]

get_stock_price(symbol, h, i, f) ==
    LET sym == upper(strip(symbol))
        q == get_stock_price_with_fallback(sym, h, i, f)
    IN  [lookups |-> <<Lookup(sym, q)>>,
         res |-> IF q.raised THEN ToolRaised
                 ELSE IF q.price # None
                 THEN Text([template |-> "Current price of",
                            symbol |-> sym,
                            price |-> fmt2(q.price[1]),
                            source_text |-> IF q.source = "yfinance"
                                            THEN "from Yahoo Finance"
                                            ELSE "from local data"])
                 ELSE Text([template |-> "ERROR: Could not retrieve price for, data sources",
                            symbol |-> sym])]

abs(x) == IF x < 0 THEN -x ELSE x
min(x, y) == IF y < x THEN y ELSE x

\* the nearest integer to n / d (d > 0), a tie going to the even one
round_div(n, d) ==
    LET q == n \div d
        r == n % d
    IN  IF 2 * r > d \/ (2 * r = d /\ q % 2 = 1) THEN q + 1 ELSE q

\* "{percentage:.2f}" of difference / min_price * 100 (both in cents), counted
\* in hundredths of a percent
pct_2f(difference, min_price) == round_div(difference * 10000, min_price)

\* compare_prices with the percentage taken relative to the second price
compare_prices_vs_price2(symbol1, symbol2, price1, price2) ==
    IF price1 = None
    THEN Text([template |-> "ERROR: Could not retrieve price for", symbol |-> symbol1])
    ELSE IF price2 = None
    THEN Text([template |-> "ERROR: Could not retrieve price for", symbol |-> symbol2])
    ELSE LET p1 == price1[1]
             p2 == price2[1]
             difference == abs(p1 - p2)
             min_price == p2
             percentage == IF min_price > 0 THEN pct_2f(difference, min_price) ELSE 0
             cmp(word) == Text([template |-> word,
                                symbol1 |-> symbol1, price1 |-> fmt2(p1),
                                difference |-> fmt2(difference),
                                percentage |-> fmt2(percentage),
                                symbol2 |-> symbol2, price2 |-> fmt2(p2)])
         IN  IF p1 > p2 THEN cmp("higher than")
             ELSE IF p1 < p2 THEN cmp("lower than")
             ELSE Text([template |-> "have the same price",
                        symbol1 |-> symbol1, symbol2 |-> symbol2,
                        price1 |-> fmt2(p1)])

\* compare_prices with the percentage taken relative to the larger price
compare_prices_vs_max(symbol1, symbol2, price1, price2) ==
    IF price1 = None
    THEN Text([template |-> "ERROR: Could not retrieve price for", symbol |-> symbol1])
    ELSE IF price2 = None
    THEN Text([template |-> "ERROR: Could not retrieve price for", symbol |-> symbol2])
    ELSE LET p1 == price1[1]
             p2 == price2[1]
             difference == abs(p1 - p2)
             min_price == IF p1 < p2 THEN p2 ELSE p1
             percentage == IF min_price > 0 THEN pct_2f(difference, min_price) ELSE 0
             cmp(word) == Text([template |-> word,
                                symbol1 |-> symbol1, price1 |-> fmt2(p1),
                                difference |-> fmt2(difference),
                                percentage |-> fmt2(percentage),
                                symbol2 |-> symbol2, price2 |-> fmt2(p2)])
         IN  IF p1 > p2 THEN cmp("higher than")
             ELSE IF p1 < p2 THEN cmp("lower than")
             ELSE Text([template |-> "have the same price",
                        symbol1 |-> symbol1, symbol2 |-> symbol2,
                        price1 |-> fmt2(p1)])

\* lines 249-265 of compare_stocks, on the two resolved prices
compare_prices(symbol1, symbol2, price1, price2) ==
    IF price1 = None
    THEN Text([template |-> "ERROR: Could not retrieve price for", symbol |-> symbol1])
    ELSE IF price2 = None
    THEN Text([template |-> "ERROR: Could not retrieve price for", symbol |-> symbol2])
    ELSE LET p1 == price1[1]
             p2 == price2[1]
             difference == abs(p1 - p2)
             min_price == min(p1, p2)
             percentage == IF min_price > 0 THEN pct_2f(difference, min_price) ELSE 0
             cmp(word) == Text([template |-> word,
                                symbol1 |-> symbol1, price1 |-> fmt2(p1),
                                difference |-> fmt2(difference),
                                percentage |-> fmt2(percentage),
                                symbol2 |-> symbol2, price2 |-> fmt2(p2)])
         IN  IF p1 > p2 THEN cmp("higher than")
             ELSE IF p1 < p2 THEN cmp("lower than")
             ELSE Text([template |-> "have the same price",
                        symbol1 |-> symbol1, symbol2 |-> symbol2,
                        price1 |-> fmt2(p1)])

\* compare_stocks; the provider and the file are read as (h1, i1, f1) by the
\* first lookup and as (h2, i2, f2) by the second
\* compare_stocks answering its second lookup from what the first one read
compare_stocks_one_snapshot(symbol1, symbol2, h1, i1, f1, h2, i2, f2) ==
    LET sym1 == upper(strip(symbol1))
        sym2 == upper(strip(symbol2))
        q1 == get_stock_price_with_fallback(sym1, h1, i1, f1)
        q2 == get_stock_price_with_fallback(sym2, h1, i1, f1)
    IN  IF q1.raised THEN [lookups |-> <<Lookup(sym1, q1)>>, res |-> ToolRaised]
        ELSE [lookups |-> <<Lookup(sym1, q1), Lookup(sym2, q2)>>,
              res |-> IF q2.raised THEN ToolRaised
                      ELSE compare_prices(sym1, sym2, q1.price, q2.price)]

compare_stocks(symbol1, symbol2, h1, i1, f1, h2, i2, f2) ==
    LET sym1 == upper(strip(symbol1))
        sym2 == upper(strip(symbol2))
        q1 == get_stock_price_with_fallback(sym1, h1, i1, f1)
        q2 == get_stock_price_with_fallback(sym2, h2, i2, f2)
    IN  IF q1.raised THEN [lookups |-> <<Lookup(sym1, q1)>>, res |-> ToolRaised]
        ELSE [lookups |-> <<Lookup(sym1, q1), Lookup(sym2, q2)>>,
              res |-> IF q2.raised THEN ToolRaised
                      ELSE compare_prices(sym1, sym2, q1.price, q2.price)]

\* "x is not None" where the code tests "if x"
is_not_none(x) == x # None

\* Python truthiness of an optional number: neither None nor 0
truthy(x) == x # None /\ x[1] # 0

\* 1e12 dollars; market caps are counted in units of 1e7 dollars, so that
\* "{market_cap/1e9:.2f}B" renders them exactly
Trillion == 100000

\* line 321: "${market_cap/1e12:.2f}T" from 1e12 on, "${market_cap/1e9:.2f}B" below
market_cap_formatted(market_cap) ==
    IF market_cap >= Trillion
    THEN [unit |-> "T", amount |-> fmt2(round_div(market_cap, 1000))]
    ELSE [unit |-> "B", amount |-> fmt2(market_cap)]

Line(label, value) == [label |-> label, value |-> value]
When(cond, line) == IF cond THEN <<line>> ELSE << >>

\* get_stock_fundamentals.  P/E ratios count hundredths, dividend yields count
\* 1e-4 (so that "{dividend_yield*100:.2f}%" renders them exactly).
get_stock_fundamentals(symbol, i) ==
    LET sym == upper(strip(symbol))
        rec == Info(sym, i)
    IN  IF rec.kind = "throw"
        THEN Text([template |-> "ERROR: Could not retrieve fundamentals for",
                   symbol |-> sym])
        ELSE LET name == IF rec.longName # None THEN rec.longName[1] ELSE "N/A"
                 market_cap == rec.marketCap
                 pe_ratio == rec.trailingPE
                 dividend_yield == rec.dividendYield
                 week_52_high == rec.fiftyTwoWeekHigh
                 week_52_low == rec.fiftyTwoWeekLow
                 current_price == rec.regularMarketPrice
                 lines ==
                     When(truthy(current_price),
                          Line("Current Price", fmt2(current_price[1])))
                     \o When(truthy(market_cap),
                             Line("Market Capitalization",
                                  market_cap_formatted(market_cap[1])))
                     \o When(truthy(pe_ratio), Line("P/E Ratio", fmt2(pe_ratio[1])))
                     \o When(truthy(dividend_yield),
                             Line("Dividend Yield", fmt2(dividend_yield[1])))
                     \o When(truthy(week_52_low) /\ truthy(week_52_high),
                             Line("52-Week Range",
                                  [low |-> fmt2(week_52_low[1]),
                                   high |-> fmt2(week_52_high[1])]))
             IN  IF lines = << >>
                 THEN Text([template |-> "Limited fundamental data available for",
                            symbol |-> sym])
                 ELSE Text([template |-> "Financial Fundamentals",
                            name |-> name, symbol |-> sym, lines |-> lines])

GSPC == <<"^", "G", "S", "P", "C">>
DJI == <<"^", "D", "J", "I">>
IXIC == <<"^", "I", "X", "I", "C">>

\* lines 370-374; a dict iterates in insertion order
indices ==
    << [name |-> "S&P 500", symbol |-> GSPC],
       [name |-> "Dow Jones", symbol |-> DJI],
       [name |-> "NASDAQ", symbol |-> IXIC] >>

\* the digits of n in groups of three, as "{n:,}" separates them
RECURSIVE groups(_)
groups(n) == IF n < 1000 THEN <<n>> ELSE groups(n \div 1000) \o <<n % 1000>>

\* "${price:,.2f}"
fmt2_grouped(x) == [dollars |-> groups(x \div 100), cents |-> x % 100]

\* lines 389 and 390: "+{x:.2f}" if x and x >= 0 else "{x:.2f}" if x else "N/A"
signed_str(x) ==
    IF truthy(x) /\ x[1] >= 0 THEN [sign |-> "+", amount |-> fmt2(x[1])]
    ELSE IF truthy(x) THEN [sign |-> "-", amount |-> fmt2(-x[1])]
    ELSE [sign |-> "N/A", amount |-> fmt2(0)]

\* the body of the loop of get_market_summary for one index
index_line(index, i) ==
    LET rec == Info(index.symbol, i) IN
    IF rec.kind = "throw"
    THEN [name |-> index.name, symbol |-> index.symbol,
          status |-> "Error retrieving data"]
    ELSE LET price == rec.regularMarketPrice
             change == rec.regularMarketChange
             change_pct == rec.regularMarketChangePercent
         IN  IF truthy(price)
             THEN [name |-> index.name, symbol |-> index.symbol,
                   status |-> "quote",
                   price |-> fmt2_grouped(price[1]),
                   change_str |-> signed_str(change),
                   pct_str |-> signed_str(change_pct)]
             ELSE [name |-> index.name, symbol |-> index.symbol,
                   status |-> "Data unavailable"]

get_market_summary(i) ==
    Text([template |-> "Market Summary",
          lines |-> [k \in 1..Len(indices) |-> index_line(indices[k], i)]])

(***************************************************************************)
(* State machine.  The server answers one call at a time: a tool action    *)
(* is the whole handler, out holds its answer until Deliver hands it to    *)
(* the client; the provider and the file change between calls, and         *)
(* CompareStocksRacing has them change between the handler's two lookups.  *)
(***************************************************************************)
Idle == [op |-> "idle"]

InputSymbols == {A, <<"a">>, <<" ", "a">>, B, <<"b", " ">>, <<"c">>}
CompareSymbols == {A, <<" ", "a">>, <<"b", " ">>, <<"c">>}

QuoteResp ==
    {InfoThrow} \cup {[EmptyInfo EXCEPT !.regularMarketPrice = p] : p \in OptPrice}

\* the provider's history for one of its tickers changes
HistSucc(h) == {[h EXCEPT ![t] = r] : t \in DOMAIN h, r \in HistResp}

\* the provider's quote for one of its tickers changes
InfoSucc(i) == {[i EXCEPT ![t] = r] : t \in DOMAIN i, r \in QuoteResp}

\* the file is removed, damaged, rewritten empty, gains a row or loses its first
FileSucc(f) ==
    {FileMissing, FileUnreadable, FileTable(<< >>)}
    \cup (IF f.kind = "table" /\ Len(f.rows) < MaxRows
          THEN {FileTable(Append(f.rows, r)) : r \in Row} ELSE {})
    \cup (IF f.kind = "table" /\ f.rows # << >>
          THEN {FileTable(Tail(f.rows))} ELSE {})

EnvSucc(h, i, f) ==
    {[h |-> h2, i |-> i, f |-> f] : h2 \in HistSucc(h)}
    \cup {[h |-> h, i |-> i2, f |-> f] : i2 \in InfoSucc(i)}
    \cup {[h |-> h, i |-> i, f |-> f2] : f2 \in FileSucc(f)}

FundSymbols == {A, <<" ", "a">>, <<"c">>}

FundFields ==
    {"regularMarketPrice", "longName", "marketCap", "trailingPE", "dividendYield",
     "fiftyTwoWeekHigh", "fiftyTwoWeekLow"}
IndexFields == {"regularMarketPrice", "regularMarketChange", "regularMarketChangePercent"}

\* the values a field of the info record takes
FieldValues(fld) ==
    CASE fld = "longName" -> {None, Some("Agilent Technologies, Inc.")}
      [] fld = "marketCap" -> {None, Some(0), Some(4150), Some(290000)}
      [] fld = "regularMarketChange" -> {None, Some(0), Some(-15), Some(52)}
      [] fld = "regularMarketChangePercent" -> {None, Some(-31)}
      [] OTHER -> OptPrice

\* one field of the info record of one ticker changes (a record is returned
\* again if the query threw before)
InfoFieldSucc(i, fields) ==
    UNION {{[i EXCEPT ![t] = [(IF i[t].kind = "throw" THEN EmptyInfo ELSE i[t])
                                 EXCEPT ![fld] = v]] : v \in FieldValues(fld)} :
              t \in DOMAIN i, fld \in fields}

\* the info query of one ticker throws
InfoThrowSucc(i) == {[i EXCEPT ![t] = InfoThrow] : t \in DOMAIN i}

\* an info record with every field the tools read
SampleInfo ==
    [kind |-> "ok",
     regularMarketPrice |-> Some(2), longName |-> Some("Agilent Technologies, Inc."),
     marketCap |-> Some(4150), trailingPE |-> Some(1), dividendYield |-> Some(1),
     fiftyTwoWeekHigh |-> Some(2), fiftyTwoWeekLow |-> Some(1),
     regularMarketChange |-> Some(-15), regularMarketChangePercent |-> Some(-31)]

Init ==
    /\ hist = [t \in {A} |-> HistEmpty]
    /\ info = [t \in {A} |-> EmptyInfo]
    /\ file = FileMissing
    /\ out = Idle

SetHistory ==
    /\ out = Idle
    /\ hist' \in HistSucc(hist)
    /\ UNCHANGED <<info, file, out>>

SetQuote ==
    /\ out = Idle
    /\ info' \in InfoSucc(info)
    /\ UNCHANGED <<hist, file, out>>

WriteFile ==
    /\ out = Idle
    /\ file' \in FileSucc(file)
    /\ UNCHANGED <<hist, info, out>>

GetStockPrice ==
    /\ out = Idle
    /\ \E symbol \in InputSymbols :
          out' = [op |-> "get_stock_price", symbol |-> symbol]
                    @@ get_stock_price(symbol, hist, info, file)
    /\ UNCHANGED <<hist, info, file>>

CompareStocks ==
    /\ out = Idle
    /\ \E symbol1 \in CompareSymbols, symbol2 \in CompareSymbols :
          out' = [op |-> "compare_stocks", symbol1 |-> symbol1, symbol2 |-> symbol2,
                  raced |-> FALSE]
                    @@ compare_stocks(symbol1, symbol2,
                                      hist, info, file, hist, info, file)
    /\ UNCHANGED <<hist, info, file>>

CompareStocksRacing ==
    /\ out = Idle
    /\ \E symbol1 \in CompareSymbols, symbol2 \in CompareSymbols,
          e \in EnvSucc(hist, info, file) :
          /\ out' = [op |-> "compare_stocks", symbol1 |-> symbol1, symbol2 |-> symbol2,
                      raced |-> TRUE]
                       @@ compare_stocks(symbol1, symbol2,
                                         hist, info, file, e.h, e.i, e.f)
          /\ hist' = e.h
          /\ info' = e.i
          /\ file' = e.f

GetStockFundamentals ==
    /\ out = Idle
    /\ \E symbol \in FundSymbols :
          out' = [op |-> "get_stock_fundamentals", symbol |-> symbol,
                  res |-> get_stock_fundamentals(symbol, info)]
    /\ UNCHANGED <<hist, info, file>>

GetMarketSummary ==
    /\ out = Idle
    /\ out' = [op |-> "get_market_summary", res |-> get_market_summary(info)]
    /\ UNCHANGED <<hist, info, file>>

\* a field of the info record of a ticker changes
SetFundamentals ==
    /\ out = Idle
    /\ info' \in InfoFieldSucc(info, FundFields)
    /\ UNCHANGED <<hist, file, out>>

\* a field of the info record of an index changes
SetIndexQuote ==
    /\ out = Idle
    /\ info' \in InfoFieldSucc(info, IndexFields)
    /\ UNCHANGED <<hist, file, out>>

\* the info query of a ticker starts to throw
InfoFails ==
    /\ out = Idle
    /\ info' \in InfoThrowSucc(info)
    /\ UNCHANGED <<hist, file, out>>

\* the provider returns a full info record for a ticker
SetSample ==
    /\ out = Idle
    /\ \E t \in DOMAIN info : info' = [info EXCEPT ![t] = SampleInfo]
    /\ UNCHANGED <<hist, file, out>>

\* the answer is handed to the client
Deliver ==
    /\ out # Idle
    /\ out' = Idle
    /\ UNCHANGED <<hist, info, file>>

(***************************************************************************)
(* Specifications.                                                         *)
(*   Spec          the price tools, over a provider listing A and the file *)
(*   SpecTools     the four tools, over a provider listing A and NASDAQ    *)
(*   SpecCompare   compare_stocks on provider prices, the docstring's two  *)
(*                 among them                                              *)
(*   SpecFund      get_stock_fundamentals over every info record           *)
(*   SpecSummary   get_market_summary over every info record of the three  *)
(*                 indices                                                 *)
(***************************************************************************)
Next ==
    \/ SetHistory
    \/ SetQuote
    \/ WriteFile
    \/ GetStockPrice
    \/ CompareStocks
    \/ CompareStocksRacing
    \/ Deliver

Spec == Init /\ [][Next]_vars

InitTools ==
    /\ hist = [t \in {A} |-> HistEmpty]
    /\ info = [t \in {A, IXIC} |-> EmptyInfo]
    /\ file = FileMissing
    /\ out = Idle

NextTools ==
    \/ SetHistory
    \/ SetQuote
    \/ SetSample
    \/ WriteFile
    \/ GetStockPrice
    \/ CompareStocks
    \/ GetStockFundamentals
    \/ GetMarketSummary
    \/ Deliver

SpecTools == InitTools /\ [][NextTools]_vars

\* the docstring's prices, lines 76 and 77, in cents
AaplPrice == 17564
MsftPrice == 33021
ComparePrices == Price \cup {MaxPrice + 1, AaplPrice, MsftPrice}

InitCompare ==
    /\ hist \in [{A, B} -> {HistEmpty} \cup {HistRows(p) : p \in ComparePrices}]
    /\ info = [t \in {A, B} |-> EmptyInfo]
    /\ file = FileMissing
    /\ out = Idle

NextCompare == CompareStocks \/ Deliver

SpecCompare == InitCompare /\ [][NextCompare]_vars

InitFund ==
    /\ hist = [t \in {A} |-> HistEmpty]
    /\ info = [t \in {A} |-> EmptyInfo]
    /\ file = FileMissing
    /\ out = Idle

NextFund == SetFundamentals \/ InfoFails \/ GetStockFundamentals \/ Deliver

SpecFund == InitFund /\ [][NextFund]_vars

InitSummary ==
    /\ hist = [t \in {A} |-> HistEmpty]
    /\ info = [t \in {GSPC, DJI, IXIC} |-> EmptyInfo]
    /\ file = FileMissing
    /\ out = Idle

NextSummary == SetIndexQuote \/ InfoFails \/ GetMarketSummary \/ Deliver

SpecSummary == InitSummary /\ [][NextSummary]_vars

(***************************************************************************)
(* Claims.                                                                 *)
(***************************************************************************)
Range(s) == {s[k] : k \in DOMAIN s}

\* a non-empty history's close, or else the info record's regularMarketPrice
LiveYield(sym) ==
    LET data == History(sym, hist)
        rec == Info(sym, info)
    IN  IF data.kind = "rows" THEN Some(data.close)
        ELSE IF data.kind = "empty" /\ rec.kind = "ok" THEN rec.regularMarketPrice
        ELSE None

\* the price of the first row of the file whose symbol is sym, whatever the case
DatasetYield(sym) ==
    IF file.kind # "table" THEN None
    ELSE LET hits == {k \in DOMAIN file.rows : upper(file.rows[k].symbol) = upper(sym)}
         IN  IF hits = {} THEN None
             ELSE file.rows[CHOOSE k \in hits : \A j \in hits : k <= j].price

PriceTools == {"get_stock_price", "compare_stocks"}

\* the lookups of the call just answered that read the provider and the file
\* as they are now
CurrentLookups ==
    IF out.op \notin PriceTools THEN {}
    ELSE {out.lookups[k] : k \in {j \in DOMAIN out.lookups :
                                     out.op = "get_stock_price" \/ ~out.raced \/ j = 2}}

AllLookups == IF out.op \in PriceTools THEN Range(out.lookups) ELSE {}

\* C1. Live precedence: whenever the live path yields a price for the symbol,
\* get_stock_price_with_fallback returns that price with source 'yfinance',
\* whatever the file holds, and does not consult the file.
LivePrecedence ==
    \A l \in CurrentLookups :
        LiveYield(l.symbol) # None =>
            /\ ~l.raised
            /\ l.price = LiveYield(l.symbol)
            /\ l.source = "yfinance"
            /\ "csv" \notin Range(l.trace)

\* C1 witness: a lookup answered from the info record while the file holds
\* another price for the same symbol.
LivePrecedenceWitness ==
    /\ out.op = "get_stock_price"
    /\ History(A, hist).kind = "empty"
    /\ \E l \in CurrentLookups :
          /\ l.symbol = A
          /\ LiveYield(A) # None
          /\ DatasetYield(A) # None
          /\ DatasetYield(A) # LiveYield(A)
          /\ l.source = "yfinance"

\* C2. Fallback on any live failure: when the live path yields nothing for a
\* symbol the file holds, get_stock_price_with_fallback reads the file and
\* returns the file's price with source 'csv'; the caller of get_stock_price
\* sees that price, not the provider's failure.
FallbackOnLiveFailure ==
    /\ \A l \in CurrentLookups :
          (LiveYield(l.symbol) = None /\ DatasetYield(l.symbol) # None) =>
              /\ ~l.raised
              /\ l.price = DatasetYield(l.symbol)
              /\ l.source = "csv"
              /\ l.trace[Len(l.trace)] = "csv"
    /\ out.op = "get_stock_price" =>
          LET l == out.lookups[1] IN
          (LiveYield(l.symbol) = None /\ DatasetYield(l.symbol) # None) =>
              /\ ~out.res.raised
              /\ out.res.text.template = "Current price of"
              /\ out.res.text.price = fmt2(DatasetYield(l.symbol)[1])
              /\ out.res.text.source_text = "from local data"

\* C2 witness: the history query threw, and the second of two rows spelt in
\* lower case would have given another price.
FallbackWitness ==
    /\ out.op = "get_stock_price"
    /\ History(A, hist).kind = "throw"
    /\ file.kind = "table"
    /\ Len(file.rows) = 2
    /\ file.rows[1].symbol = <<"a">>
    /\ file.rows[2].symbol = <<"a">>
    /\ file.rows[1].price # file.rows[2].price
    /\ file.rows[2].price # Unparsable
    /\ \E l \in CurrentLookups : l.symbol = A /\ l.source = "csv"

\* C3. Provenance: every result of get_stock_price_with_fallback has source
\* 'none' exactly when its price is None, and it is (None, 'none') exactly when
\* neither the live path nor the file (missing and unreadable included) yields
\* a price for the symbol.
Provenance ==
    /\ \A l \in AllLookups :
          /\ ~l.raised
          /\ l.source \in {"yfinance", "csv", "none"}
          /\ (l.source = "none") <=> (l.price = None)
    /\ \A l \in CurrentLookups :
          (l.price = None /\ l.source = "none")
              <=> (LiveYield(l.symbol) = None /\ DatasetYield(l.symbol) = None)

\* C3 witness: the info query threw and the file is unreadable.
ProvenanceWitness ==
    /\ out.op = "get_stock_price"
    /\ file.kind = "unreadable"
    /\ History(A, hist).kind = "empty"
    /\ Info(A, info).kind = "throw"
    /\ \E l \in CurrentLookups : l.symbol = A /\ l.source = "none" /\ l.price = None

\* C4. compare_stocks(X, X) reports "same price" whenever X resolves, whatever
\* the provider and the file do across the call's two lookups.
SelfCompareSame ==
    (/\ out.op = "compare_stocks"
     /\ out.symbol1 = out.symbol2
     /\ \A l \in Range(out.lookups) : ~l.raised /\ l.price # None)
        => out.res.text.template = "have the same price"

Unfmt(a) == a.dollars * 100 + a.cents

RECURSIVE Ungroup(_)
Ungroup(gs) ==
    IF gs = << >> THEN 0
    ELSE Ungroup(SubSeq(gs, 1, Len(gs) - 1)) * 1000 + gs[Len(gs)]
Norm(symbol) == upper(strip(symbol))

\* C6. No exception crosses the tool boundary: whatever the provider and the
\* file do (throwing history or info query, absent fields, missing or
\* unreadable file, unparsable cell, symbol found nowhere), each of the four
\* tools returns a text, and a symbol found nowhere is reported by the error
\* text that names it.
NoExceptionCrossesToolBoundary ==
    out.op # "idle" =>
        /\ ~out.res.raised
        /\ out.op = "get_stock_price" =>
              /\ out.res.text.template
                    \in {"Current price of",
                         "ERROR: Could not retrieve price for, data sources"}
              /\ (LiveYield(Norm(out.symbol)) = None
                  /\ DatasetYield(Norm(out.symbol)) = None)
                    => /\ out.res.text.template
                             = "ERROR: Could not retrieve price for, data sources"
                       /\ out.res.text.symbol = Norm(out.symbol)
        /\ out.op = "compare_stocks" =>
              /\ out.res.text.template
                    \in {"higher than", "lower than", "have the same price",
                         "ERROR: Could not retrieve price for"}
              /\ (\E sym \in {Norm(out.symbol1), Norm(out.symbol2)} :
                     LiveYield(sym) = None /\ DatasetYield(sym) = None)
                    => /\ out.res.text.template = "ERROR: Could not retrieve price for"
                       /\ out.res.text.symbol \in {Norm(out.symbol1), Norm(out.symbol2)}
                       /\ LiveYield(out.res.text.symbol) = None
                       /\ DatasetYield(out.res.text.symbol) = None
        /\ out.op = "get_stock_fundamentals" =>
              out.res.text.template
                 \in {"Financial Fundamentals", "Limited fundamental data available for",
                      "ERROR: Could not retrieve fundamentals for"}
        /\ out.op = "get_market_summary" =>
              out.res.text.template = "Market Summary"

\* C6 witness: get_stock_price answered with the error text after the history
\* query threw and float() rejected the cell of the matching row.
NoExceptionWitness ==
    /\ out.op = "get_stock_price"
    /\ Norm(out.symbol) = A
    /\ History(A, hist).kind = "throw"
    /\ file.kind = "table"
    /\ \E k \in DOMAIN file.rows : upper(file.rows[k].symbol) = A
    /\ DatasetYield(A) = None
    /\ out.res.text.template = "ERROR: Could not retrieve price for, data sources"

\* the prices the two lookups of the call just answered resolved to
BothResolved ==
    /\ out.op = "compare_stocks"
    /\ Len(out.lookups) = 2
    /\ \A l \in Range(out.lookups) : ~l.raised /\ l.price # None

\* C7. compare_stocks is antisymmetric in direction and symmetric in magnitude:
\* on the same resolved prices, compare_stocks(A, B) and compare_stocks(B, A)
\* report "higher"/"lower" reversed (or both "same") and the same difference and
\* percentage.
CompareAntisymmetric ==
    (BothResolved /\ ~out.raced) =>
        LET t == out.res.text
            rev == compare_stocks(out.symbol2, out.symbol1,
                                  hist, info, file, hist, info, file).res.text
        IN  /\ t.template = "higher than" => rev.template = "lower than"
            /\ t.template = "lower than" => rev.template = "higher than"
            /\ t.template = "have the same price" => rev.template = "have the same price"
            /\ t.template \in {"higher than", "lower than"} =>
                  /\ rev.difference = t.difference
                  /\ rev.percentage = t.percentage
                  /\ rev.symbol1 = t.symbol2 /\ rev.symbol2 = t.symbol1
                  /\ rev.price1 = t.price2 /\ rev.price2 = t.price1

\* C7 witness: the cheaper symbol first, at less than half the other's price.
CompareAntisymmetricWitness ==
    /\ BothResolved
    /\ out.res.text.template = "lower than"
    /\ out.res.text.symbol1 # out.res.text.symbol2
    /\ out.lookups[1].price[1] > 0
    /\ 2 * out.lookups[1].price[1] < out.lookups[2].price[1]

\* what compare_stocks is to return on its two lookups, the docstring's prices
\* giving examplePct hundredths of a percent
CompareArithmeticWith(examplePct) ==
    (out.op = "compare_stocks" /\ ~out.res.raised) =>
        LET t == out.res.text
            q1 == out.lookups[1]
            q2 == out.lookups[2]
        IN  IF q1.price = None \/ q2.price = None
            THEN /\ t.template = "ERROR: Could not retrieve price for"
                 /\ t.symbol \in {l.symbol : l \in {q \in {q1, q2} : q.price = None}}
            ELSE LET p1 == q1.price[1]
                     p2 == q2.price[1]
                     d == IF p1 < p2 THEN p2 - p1 ELSE p1 - p2
                     m == IF p1 < p2 THEN p1 ELSE p2
                 IN  /\ p1 > p2 <=> t.template = "higher than"
                     /\ p1 < p2 <=> t.template = "lower than"
                     /\ p1 = p2 <=> t.template = "have the same price"
                     /\ p1 # p2 =>
                           /\ t.symbol1 = q1.symbol /\ t.symbol2 = q2.symbol
                           /\ Unfmt(t.price1) = p1 /\ Unfmt(t.price2) = p2
                           /\ Unfmt(t.difference) = d
                           /\ m = 0 => Unfmt(t.percentage) = 0
                           /\ m > 0 =>
                                 LET e == Unfmt(t.percentage) * m - 10000 * d
                                 IN  2 * e <= m /\ -2 * e <= m
                     /\ (p1 = AaplPrice /\ p2 = MsftPrice) =>
                           /\ Unfmt(t.percentage) = examplePct
                           /\ t.template = "lower than"

SummaryIsolation ==
    out.op = "get_market_summary" =>
        /\ ~out.res.raised
        /\ Len(out.res.text.lines) = 3
        /\ \A k \in 1..3 :
              LET line == out.res.text.lines[k]
                  rec == Info(indices[k].symbol, info)
                  shown(x, str) ==
                      IF x = None THEN str.sign = "N/A"
                      ELSE /\ str.sign = (IF x[1] >= 0 THEN "+" ELSE "-")
                           /\ Unfmt(str.amount) = (IF x[1] >= 0 THEN x[1] ELSE -x[1])
              IN  /\ line.name = <<"S&P 500", "Dow Jones", "NASDAQ">>[k]
                  /\ line.symbol = <<GSPC, DJI, IXIC>>[k]
                  /\ rec.kind = "throw" => line.status = "Error retrieving data"
                  /\ (rec.kind = "ok" /\ rec.regularMarketPrice = None)
                        => line.status = "Data unavailable"
                  /\ (rec.kind = "ok" /\ rec.regularMarketPrice # None) =>
                        /\ line.status = "quote"
                        /\ Ungroup(line.price.dollars) * 100 + line.price.cents
                              = rec.regularMarketPrice[1]
                        /\ shown(rec.regularMarketChange, line.change_str)
                        /\ shown(rec.regularMarketChangePercent, line.pct_str)

FundMetrics ==
    {"regularMarketPrice", "marketCap", "trailingPE", "dividendYield",
     "fiftyTwoWeekHigh", "fiftyTwoWeekLow"}

\* the labels of the lines a report is to hold, given which fields count
FundLabels(has(_)) ==
    (IF has("regularMarketPrice") THEN {"Current Price"} ELSE {})
    \cup (IF has("marketCap") THEN {"Market Capitalization"} ELSE {})
    \cup (IF has("trailingPE") THEN {"P/E Ratio"} ELSE {})
    \cup (IF has("dividendYield") THEN {"Dividend Yield"} ELSE {})
    \cup (IF has("fiftyTwoWeekLow") /\ has("fiftyTwoWeekHigh")
          THEN {"52-Week Range"} ELSE {})

\* C10 as stated. Partial fundamentals are not an error: when the info query
\* succeeds the report renders each optional field present in the record (the
\* 52-week range when low and high are) and omits the absent ones, and the
\* "limited data" text is returned only when the record holds none of the
\* fields; a throwing query yields the error text.
FundamentalsAsStated ==
    out.op = "get_stock_fundamentals" =>
        LET rec == Info(Norm(out.symbol), info)
            t == out.res.text
            present(fld) == rec[fld] # None
        IN  /\ ~out.res.raised
            /\ rec.kind = "throw"
                  <=> t.template = "ERROR: Could not retrieve fundamentals for"
            /\ rec.kind = "ok" =>
                  /\ t.template = "Limited fundamental data available for"
                        => FundLabels(present) = {} /\ ~present("longName")
                  /\ t.template = "Financial Fundamentals" =>
                        /\ {l.label : l \in Range(t.lines)} = FundLabels(present)
                        /\ present("longName") => t.name = rec.longName[1]

\* C10 as amended. When the info query succeeds the report renders each of
\* current price, market cap, P/E ratio and dividend yield that is present and
\* not zero, and the 52-week range when low and high both are, in that order,
\* under a header with the name ("N/A" when absent); a field that is absent or
\* zero is omitted; the "limited data" text is returned exactly when no such
\* line is rendered, whatever the name; a throwing query yields the error text.
FundamentalsRendersAvailable ==
    out.op = "get_stock_fundamentals" =>
        LET rec == Info(Norm(out.symbol), info)
            t == out.res.text
            available(fld) == rec[fld] # None /\ rec[fld][1] # 0
            order == <<"Current Price", "Market Capitalization", "P/E Ratio",
                       "Dividend Yield", "52-Week Range">>
            pos(label) == CHOOSE k \in 1..5 : order[k] = label
        IN  /\ ~out.res.raised
            /\ t.symbol = Norm(out.symbol)
            /\ rec.kind = "throw"
                  <=> t.template = "ERROR: Could not retrieve fundamentals for"
            /\ rec.kind = "ok" =>
                  /\ t.template = "Limited fundamental data available for"
                        <=> FundLabels(available) = {}
                  /\ t.template = "Financial Fundamentals" =>
                        /\ {l.label : l \in Range(t.lines)} = FundLabels(available)
                        /\ \A j, k \in DOMAIN t.lines :
                              j < k => pos(t.lines[j].label) < pos(t.lines[k].label)
                        /\ t.name = (IF rec.longName # None THEN rec.longName[1]
                                     ELSE "N/A")
                        /\ \A l \in Range(t.lines) :
                              /\ l.label = "Current Price"
                                    => Unfmt(l.value) = rec.regularMarketPrice[1]
                              /\ l.label = "P/E Ratio"
                                    => Unfmt(l.value) = rec.trailingPE[1]
                              /\ l.label = "Dividend Yield"
                                    => Unfmt(l.value) = rec.dividendYield[1]
                              /\ l.label = "52-Week Range" =>
                                    /\ Unfmt(l.value.low) = rec.fiftyTwoWeekLow[1]
                                    /\ Unfmt(l.value.high) = rec.fiftyTwoWeekHigh[1]
                              /\ l.label = "Market Capitalization" =>
                                    l.value.unit = (IF rec.marketCap[1] >= Trillion
                                                    THEN "T" ELSE "B")

\* C10 witness: a report of two lines or more from a record that lacks one
\* field and holds a zero in another.
FundamentalsWitness ==
    /\ out.op = "get_stock_fundamentals"
    /\ out.res.text.template = "Financial Fundamentals"
    /\ Len(out.res.text.lines) >= 2
    /\ \E fld \in FundMetrics : Info(Norm(out.symbol), info)[fld] = None
    /\ \E fld \in FundMetrics : Info(Norm(out.symbol), info)[fld] = Some(0)

\* the lookup of a symbol against one provider response and one file content
ResolvedAt(symbol, h, i, f) ==
    Lookup(Norm(symbol), get_stock_price_with_fallback(Norm(symbol), h, i, f))

====
